---------------------------- MODULE Spec2Model ----------------------------
(***************************************************************************)
(* Tender AI Agent (src/main.py): the NIT line-item parser                 *)
(* parse_nit_items and the /upload, /get_items handlers around it.         *)
(*                                                                         *)
(* Strings are sequences of one-character strings, so that the two regular *)
(* expressions of the parser are modelled character by character.          *)
(***************************************************************************)
EXTENDS Integers, Sequences, FiniteSets, TLC

VARIABLES
    text,       \* parse_nit_items: the argument
    lines,      \* text.split('\n')
    idx,        \* position of the for loop in lines (1-based, next line to read)
    match,      \* the local match of the current iteration
    quantity_match, \* the local quantity_match of the current iteration
    items,      \* the list being built
    origin,     \* for each item, the index of the line that produced it
    pc,         \* "start" | "loop" | "matched" | "searched" | "done"
    req,        \* one record per /upload or /get_items request
    folder,     \* the upload folder: sanitized filename -> stored document
    session,    \* per client session: the cookie's 'items' / 'pdf_filename'
    lastOK      \* per session: the items the latest 200 /upload answered with

pvars == <<text, lines, idx, match, quantity_match, items, origin, pc>>
hvars == <<req, folder, session, lastOK>>
vars == <<text, lines, idx, match, quantity_match, items, origin, pc, req, folder, session, lastOK>>

-----------------------------------------------------------------------------
(* Characters *)

Digits == {"0", "1", "2", "3", "4", "5", "6", "7", "8", "9"}

\* what str.strip() removes and what \s matches
WhiteSpace == {" ", "\t", "\n", "\r", "\f"}

IsDigit(c) == c \in Digits

IsSpace(c) == c \in WhiteSpace

UpperLetters == <<"A", "B", "C", "D", "E", "F", "G", "H", "I", "J", "K", "L", "M",
                  "N", "O", "P", "Q", "R", "S", "T", "U", "V", "W", "X", "Y", "Z">>

LowerLetters == <<"a", "b", "c", "d", "e", "f", "g", "h", "i", "j", "k", "l", "m",
                  "n", "o", "p", "q", "r", "s", "t", "u", "v", "w", "x", "y", "z">>

\* case folding of one character (re.IGNORECASE, str.lower)
ToLower(c) ==
    IF \E k \in 1..26 : UpperLetters[k] = c
    THEN LowerLetters[CHOOSE k \in 1..26 : UpperLetters[k] = c]
    ELSE c

LowerStr(s) == [k \in 1..Len(s) |-> ToLower(s[k])]

\* s[a..] (1-based), empty when a is past the end
From(s, a) == SubSeq(s, a, Len(s))

-----------------------------------------------------------------------------
(* parse_nit_items, src/main.py lines 70-127 *)

\* the literals 'N/A' and 'No description found'
NA == <<"N", "/", "A">>

NoDescription == <<"N", "o", " ", "d", "e", "s", "c", "r", "i", "p", "t", "i", "o", "n",
                   " ", "f", "o", "u", "n", "d">>

\* text.split('\n'): the pieces between the newlines, empty pieces kept
RECURSIVE SplitLines(_)
SplitLines(s) ==
    IF \A k \in 1..Len(s) : s[k] # "\n"
    THEN <<s>>
    ELSE LET n == CHOOSE k \in 1..Len(s) : s[k] = "\n" /\ \A j \in 1..(k-1) : s[j] # "\n"
         IN  <<SubSeq(s, 1, n - 1)>> \o SplitLines(From(s, n + 1))

\* str.strip()
Strip(s) ==
    IF \A k \in 1..Len(s) : IsSpace(s[k])
    THEN <<>>
    ELSE LET a == CHOOSE k \in 1..Len(s) : ~IsSpace(s[k]) /\ \A j \in 1..(k-1) : IsSpace(s[j])
             b == CHOOSE k \in 1..Len(s) : ~IsSpace(s[k]) /\ \A j \in (k+1)..Len(s) : IsSpace(s[j])
         IN  SubSeq(s, a, b)

\* the length of the longest run of characters of class cls starting at s[a]
RunLen(s, a, cls) ==
    IF a > Len(s) \/ s[a] \notin cls THEN 0
    ELSE LET e == CHOOSE k \in a..Len(s) :
                    /\ \A j \in a..k : s[j] \in cls
                    /\ (k = Len(s) \/ s[k + 1] \notin cls)
         IN  e - a + 1

\* variant: the looser class [\.:] that takes neither ) nor ]
ItemDelimitersEarlier == {".", ":"}

\* the character class [\.:)\]] of the item-start pattern
ItemDelimiters == {".", ":", ")", "]"}

NoMatch == [ok |-> FALSE, item_no |-> <<>>, rest |-> <<>>]

\* variant: the pattern without its ^ anchor, found by a search: text may
\* precede the number
ItemStartSearch(s) ==
    IF \A k \in 1..Len(s) : s[k] \notin Digits
    THEN [ok |-> FALSE, item_no |-> <<>>, rest |-> <<>>]
    ELSE LET a == CHOOSE k \in 1..Len(s) : s[k] \in Digits /\ \A j \in 1..(k-1) : s[j] \notin Digits
             t == From(s, a)
             d == RunLen(t, 1, Digits)
             w == RunLen(t, d + 2, WhiteSpace)
             r == d + 2 + w
         IN  IF d + 1 > Len(t) \/ t[d + 1] \notin {".", ":", ")", "]"} \/ w = 0 \/ r > Len(t)
             THEN [ok |-> FALSE, item_no |-> <<>>, rest |-> <<>>]
             ELSE [ok |-> TRUE, item_no |-> SubSeq(t, 1, d), rest |-> From(t, r)]

\* re.match(r'^(\d+)[\.:)\]]\s+(.+)$', s): group(1) and group(2).
\* \d+ and \s+ are greedy; \s+ gives one character back to .+ only when the
\* whitespace run reaches the end of s. s is a piece of text.split('\n'), so it
\* holds no newline for . to refuse.
ItemStartMatch(s) ==
    LET d == RunLen(s, 1, Digits)
        w == RunLen(s, d + 2, WhiteSpace)
        r == d + 2 + w
    IN  IF d = 0 \/ d + 1 > Len(s) \/ s[d + 1] \notin ItemDelimiters \/ w = 0
        THEN NoMatch
        ELSE IF r <= Len(s)
        THEN [ok |-> TRUE, item_no |-> SubSeq(s, 1, d), rest |-> From(s, r)]
        ELSE IF w >= 2
        THEN [ok |-> TRUE, item_no |-> SubSeq(s, 1, d), rest |-> From(s, r - 1)]
        ELSE NoMatch

\* the alternation (Nos?|Units?|Pcs?|Meters?|KG|Kgs?|Litres?|Sets?), in its order:
\* each alternative is a word and whether an optional s follows it
UnitAlternatives ==
    << [word |-> <<"n", "o">>,                     opt_s |-> TRUE],
       [word |-> <<"u", "n", "i", "t">>,           opt_s |-> TRUE],
       [word |-> <<"p", "c">>,                     opt_s |-> TRUE],
       [word |-> <<"m", "e", "t", "e", "r">>,      opt_s |-> TRUE],
       [word |-> <<"k", "g">>,                     opt_s |-> FALSE],
       [word |-> <<"k", "g">>,                     opt_s |-> TRUE],
       [word |-> <<"l", "i", "t", "r", "e">>,      opt_s |-> TRUE],
       [word |-> <<"s", "e", "t">>,                opt_s |-> TRUE] >>

\* whether alternative alt matches at s[a], ignoring case
AltMatchesAt(s, a, alt) ==
    /\ a + Len(alt.word) - 1 <= Len(s)
    /\ LowerStr(SubSeq(s, a, a + Len(alt.word) - 1)) = alt.word

\* the number of characters alternative alt takes at s[a]: ? is greedy
AltLen(s, a, alt) ==
    LET e == a + Len(alt.word)
    IN  IF alt.opt_s /\ e <= Len(s) /\ ToLower(s[e]) = "s"
        THEN Len(alt.word) + 1
        ELSE Len(alt.word)

\* the unit group at s[a]: the first alternative that matches wins; 0 when none
UnitLenAt(s, a) ==
    IF \E k \in 1..Len(UnitAlternatives) : AltMatchesAt(s, a, UnitAlternatives[k])
    THEN LET k == CHOOSE k \in 1..Len(UnitAlternatives) :
                    /\ AltMatchesAt(s, a, UnitAlternatives[k])
                    /\ \A j \in 1..(k-1) : ~AltMatchesAt(s, a, UnitAlternatives[j])
         IN  AltLen(s, a, UnitAlternatives[k])
    ELSE 0

\* the end of (\d+(?:\.\d+)?) started at s[a], 0 when s[a] is no digit
NumberEndAt(s, a) ==
    LET d == RunLen(s, a, Digits)
        f == IF a + d <= Len(s) /\ s[a + d] = "." THEN RunLen(s, a + d + 1, Digits) ELSE 0
    IN  IF d = 0 THEN 0
        ELSE IF f > 0 THEN a + d + f
        ELSE a + d - 1

NoQuantity == [ok |-> FALSE, start |-> 0, end |-> 0, qend |-> 0, ustart |-> 0]

\* the quantity pattern tried at s[a]:
\*   (\d+(?:\.\d+)?)\s+(Nos?|Units?|Pcs?|Meters?|KG|Kgs?|Litres?|Sets?)
QuantityMatchAt(s, a) ==
    LET qe == NumberEndAt(s, a)
        w  == RunLen(s, qe + 1, WhiteSpace)
        us == qe + 1 + w
        u  == UnitLenAt(s, us)
    IN  IF qe = 0 \/ w = 0 \/ u = 0
        THEN NoQuantity
        ELSE [ok |-> TRUE, start |-> a, end |-> us + u - 1, qend |-> qe, ustart |-> us]

\* variant: the last position where the pattern matches
SearchStartRightmost(S) == CHOOSE a \in S : \A b \in S : a >= b

\* the start re.search settles on among the positions where the pattern matches
SearchStart(S) == CHOOSE a \in S : \A b \in S : a <= b

\* re.search(pattern, rest_of_line, re.IGNORECASE): the leftmost match
QuantitySearch(s) ==
    LET S == {a \in 1..Len(s) : QuantityMatchAt(s, a).ok}
    IN  IF S = {} THEN NoQuantity ELSE QuantityMatchAt(s, SearchStart(S))

\* rest_of_line[:quantity_match.start()].strip()
DescriptionBefore(s, m) == Strip(SubSeq(s, 1, m.start - 1))

\* rest_of_line[quantity_match.end():].strip()
SpecificationsAfter(s, m) == Strip(From(s, m.end + 1))

\* variant: the description is kept as extracted, empty or not
DescriptionAsExtracted(d) == d

\* description if description else 'No description found'
DescriptionOrDefault(d) == IF d = <<>> THEN NoDescription ELSE d

\* the dictionary built when quantity_match is found
ItemFound(item_no, rest, m) ==
    [item_no        |-> item_no,
     description    |-> DescriptionOrDefault(DescriptionBefore(rest, m)),
     quantity       |-> SubSeq(rest, m.start, m.qend),
     unit           |-> SubSeq(rest, m.ustart, m.end),
     specifications |-> SpecificationsAfter(rest, m)]

\* variant: the else branch leaves unit empty
ItemNotFoundEmptyUnit(item_no, rest) ==
    [item_no        |-> item_no,
     description    |-> IF rest = <<>> THEN NoDescription ELSE rest,
     quantity       |-> NA,
     unit           |-> <<>>,
     specifications |-> <<>>]

\* the dictionary built in the else branch
ItemNotFound(item_no, rest) ==
    [item_no        |-> item_no,
     description    |-> DescriptionOrDefault(rest),
     quantity       |-> NA,
     unit           |-> NA,
     specifications |-> <<>>]

\* one iteration of the for loop: the items the line adds (none or one)
ParseLine(line) ==
    LET m  == ItemStartMatch(Strip(line))
        qm == QuantitySearch(m.rest)
    IN  IF ~m.ok THEN <<>>
        ELSE IF qm.ok THEN <<ItemFound(m.item_no, m.rest, qm)>>
        ELSE <<ItemNotFound(m.item_no, m.rest)>>

\* variant: items.insert(0, item)
InsertItemFirst(list, item) == <<item>> \o list

\* items.append(item)
AppendItem(list, item) == Append(list, item)

\* the for loop over the first n lines of ls
RECURSIVE ParseLines(_, _)
ParseLines(ls, n) ==
    IF n = 0 THEN <<>>
    ELSE LET prev == ParseLines(ls, n - 1)
             new  == ParseLine(ls[n])
         IN  IF new = <<>> THEN prev ELSE AppendItem(prev, new[1])

\* parse_nit_items as a function of its argument
parse_nit_items(t) == ParseLines(SplitLines(t), Len(SplitLines(t)))

-----------------------------------------------------------------------------
(* The documents the parser is run on *)

MaxLines == 3

Cat2(A, B) == {p[1] \o p[2] : p \in A \X B}

Cat3(A, B, C) == Cat2(Cat2(A, B), C)

\* item-start candidates: text before the number, the number, what follows it
HeadPrefixes == {<<>>, <<"I", "t", "e", "m", " ">>}

HeadNumbers == {<<>>, <<"1">>, <<"0", "0", "7">>}

HeadDelimiters == {<<>>, <<".">>, <<":">>, <<")">>, <<"]">>, <<",">>, <<".", ".">>}

HeadGaps == {<<>>, <<" ">>, <<"\t", " ">>}

HeadRests == {<<>>, <<"R", "o", "d">>, <<"1", "0", " ", "N", "o", "s", " ", "x">>}

Paddings == {<<>>, <<" ">>}

HeadLines ==
    Cat2(Cat3(Paddings, HeadPrefixes, HeadNumbers),
         Cat2(Cat3(HeadDelimiters, HeadGaps, HeadRests), Paddings))

\* remainders: text, a number, a gap, a word, more text
RestBefore == {<<>>, <<"R", "o", "d", " ">>, <<"R", "o", "d", "2", ".">>}

RestNumbers == {<<"2", "5">>, <<"2", ".", "5">>, <<"7", ".">>}

RestGaps == {<<>>, <<" ">>, <<" ", "\t">>}

\* the unit words as the documentation of the pattern lists them
Vocabulary ==
    { <<"N", "o", "s">>, <<"N", "o">>, <<"U", "n", "i", "t", "s">>, <<"U", "n", "i", "t">>,
      <<"P", "c", "s">>, <<"P", "c">>, <<"M", "e", "t", "e", "r", "s">>,
      <<"M", "e", "t", "e", "r">>, <<"K", "G">>, <<"K", "g", "s">>, <<"K", "g">>,
      <<"L", "i", "t", "r", "e", "s">>, <<"L", "i", "t", "r", "e">>,
      <<"S", "e", "t", "s">>, <<"S", "e", "t">> }

OtherWords ==
    { <<"k", "g", "s">>, <<"N", "O", "S">>, <<"m", "e", "t", "e", "r", "s">>,
      <<"b", "o", "x", "e", "s">>, <<"N", "o", "t", "e", "s">>, <<"K", "i", "l", "o">>,
      <<"S", "e", "t", "t", "e", "e">> }

RestAfter ==
    { <<>>, <<" ", "x">>, <<",", " ", "a", "r", "m", "o", "u", "r", "e", "d">>,
      <<" ", "5", " ", "K", "g">>, <<"s">> }

RestLines ==
    Cat2({<<"1", ".", " ">>},
         Cat2(Cat3(RestBefore, RestNumbers, RestGaps),
              Cat2(Vocabulary \cup OtherWords, RestAfter)))

\* the lines of the documents of several lines
ShortLines ==
    { <<>>,
      <<"N", "o", "t", "e", "s", ":", " ", "s", "e", "e">>,
      <<"1", ".", " ", "R", "o", "d", " ", "2", "5", " ", "K", "g", " ", "x">>,
      <<"2", ")", " ", "B", "r", "u", "s", "h">>,
      <<" ", "0", "7", ".", " ", "1", "0", " ", "N", "o", "s", " ">>,
      <<"I", "t", "e", "m", " ", "5", ":", " ", "y">> }

RECURSIVE JoinLines(_)
JoinLines(ls) ==
    IF Len(ls) = 0 THEN <<>>
    ELSE IF Len(ls) = 1 THEN ls[1]
    ELSE ls[1] \o <<"\n">> \o JoinLines(Tail(ls))

Documents ==
    HeadLines \cup RestLines
      \cup {JoinLines(ls) : ls \in UNION {[1..n -> ShortLines] : n \in 2..MaxLines}}

-----------------------------------------------------------------------------
(* parse_nit_items as a process: its loop, statement by statement *)

ParserInit ==
    /\ text \in Documents
    /\ lines = <<>>
    /\ idx = 0
    /\ match = NoMatch
    /\ quantity_match = NoQuantity
    /\ items = <<>>
    /\ origin = <<>>
    /\ pc = "start"

\* items = [] ; lines = text.split('\n')
Split ==
    /\ pc = "start"
    /\ lines' = SplitLines(text)
    /\ idx' = 1
    /\ items' = <<>>
    /\ origin' = <<>>
    /\ pc' = "loop"
    /\ UNCHANGED <<text, match, quantity_match, hvars>>

\* for line in lines: match = re.match(..., line.strip())
MatchLine ==
    /\ pc = "loop"
    /\ idx <= Len(lines)
    /\ match' = ItemStartMatch(Strip(lines[idx]))
    /\ pc' = "matched"
    /\ UNCHANGED <<text, lines, idx, quantity_match, items, origin, hvars>>

\* if match: is false, the loop goes on to the next line
SkipLine ==
    /\ pc = "matched"
    /\ ~match.ok
    /\ idx' = idx + 1
    /\ pc' = "loop"
    /\ UNCHANGED <<text, lines, match, quantity_match, items, origin, hvars>>

\* quantity_match = re.search(..., rest_of_line, re.IGNORECASE)
SearchQuantity ==
    /\ pc = "matched"
    /\ match.ok
    /\ quantity_match' = QuantitySearch(match.rest)
    /\ pc' = "searched"
    /\ UNCHANGED <<text, lines, idx, match, items, origin, hvars>>

\* if quantity_match: the item with its quantity and unit is appended
AppendWithQuantity ==
    /\ pc = "searched"
    /\ quantity_match.ok
    /\ items' = AppendItem(items, ItemFound(match.item_no, match.rest, quantity_match))
    /\ origin' = Append(origin, idx)
    /\ idx' = idx + 1
    /\ pc' = "loop"
    /\ UNCHANGED <<text, lines, match, quantity_match, hvars>>

\* else: the item without quantity and unit is appended
AppendWithoutQuantity ==
    /\ pc = "searched"
    /\ ~quantity_match.ok
    /\ items' = AppendItem(items, ItemNotFound(match.item_no, match.rest))
    /\ origin' = Append(origin, idx)
    /\ idx' = idx + 1
    /\ pc' = "loop"
    /\ UNCHANGED <<text, lines, match, quantity_match, hvars>>

\* return items
Return ==
    /\ pc = "loop"
    /\ idx > Len(lines)
    /\ pc' = "done"
    /\ UNCHANGED <<text, lines, idx, match, quantity_match, items, origin, hvars>>

-----------------------------------------------------------------------------
(* The Flask application around the parser, src/main.py lines 35-67, 267-385 *)

MaxRequests == 2

\* the requests, numbered in their order of arrival; the development server
\* serves each in a thread of its own
Requests == 1..MaxRequests

\* the clients, each with its own session cookie
Sessions == {"s1", "s2"}

\* app.config['ALLOWED_EXTENSIONS']
AllowedExtensions == {<<"p", "d", "f">>}

\* allowed_file(filename)
allowed_file(filename) ==
    /\ \E k \in 1..Len(filename) : filename[k] = "."
    /\ LET dot == CHOOSE k \in 1..Len(filename) :
                    filename[k] = "." /\ \A j \in (k+1)..Len(filename) : filename[j] # "."
       IN  LowerStr(From(filename, dot + 1)) \in AllowedExtensions

\* the characters werkzeug's secure_filename keeps: [A-Za-z0-9_.-]
SafeChars ==
    Digits \cup {UpperLetters[k] : k \in 1..26} \cup {LowerLetters[k] : k \in 1..26}
           \cup {"_", ".", "-"}

\* "_".join(s.split()) with the path separator read as a space
RECURSIVE JoinWords(_)
JoinWords(s) ==
    LET blank == WhiteSpace \cup {"/"}
        t == From(s, RunLen(s, 1, blank) + 1)
        w == IF t = <<>> THEN 0
             ELSE IF \A k \in 1..Len(t) : t[k] \notin blank THEN Len(t)
             ELSE (CHOOSE k \in 1..Len(t) : t[k] \in blank /\ \A j \in 1..(k-1) : t[j] \notin blank) - 1
        more == JoinWords(From(t, w + 1))
    IN  IF t = <<>> THEN <<>>
        ELSE IF more = <<>> THEN SubSeq(t, 1, w)
        ELSE SubSeq(t, 1, w) \o <<"_">> \o more

\* str.strip("._")
StripDots(s) ==
    LET junk == {".", "_"}
    IN  IF \A k \in 1..Len(s) : s[k] \in junk
        THEN <<>>
        ELSE LET a == CHOOSE k \in 1..Len(s) : s[k] \notin junk /\ \A j \in 1..(k-1) : s[j] \in junk
                 b == CHOOSE k \in 1..Len(s) : s[k] \notin junk /\ \A j \in (k+1)..Len(s) : s[j] \in junk
             IN  SubSeq(s, a, b)

\* secure_filename(file.filename)
secure_filename(filename) ==
    StripDots(SelectSeq(JoinWords(filename), LAMBDA c : c \in SafeChars))

\* a stored file that cannot be read as a PDF: missing, or opened for writing
\* and not written yet
NoDoc == [pages |-> <<>>, readable |-> 0]

\* the uploaded documents: the text of each page, and how many pages PyPDF2
\* reads before it raises (all of them for a sound document)
Docs ==
    { [pages |-> << <<"1", ".", " ", "R", "o", "d", " ", "2", "5", " ", "K", "g", " ", "x">> >>,
       readable |-> 1],
      [pages |-> << <<"2", ")", " ", "B", "r", "u", "s", "h">>,
                    <<"3", ".", " ", "1", "0", " ", "N", "o", "s">> >>,
       readable |-> 2] }

\* the filenames the clients send
FileNames ==
    { <<>>,
      <<"p", "d", "f">>,
      <<"a", " ", "b", ".", "p", "d", "f">>,
      <<"a", "_", "b", ".", "p", "d", "f">>,
      <<"n", ".", "P", "D", "F">> }

\* the names files are stored under
StoredNames == {secure_filename(f) : f \in {g \in FileNames : allowed_file(g)}}

\* extract_text_from_pdf(pdf_path): the pages read before an exception, each
\* followed by a newline; the exception is swallowed
RECURSIVE PagesText(_, _)
PagesText(pages, n) ==
    IF n = 0 THEN <<>> ELSE PagesText(pages, n - 1) \o pages[n] \o <<"\n">>

extract_text_from_pdf(file) == PagesText(file.pages, file.readable)

\* parse_nit_items on the texts extraction can produce here, computed once
ParsedText == [t \in {extract_text_from_pdf(d) : d \in Docs \cup {NoDoc}} |-> parse_nit_items(t)]

NoSession == [set |-> FALSE, items |-> <<>>, pdf_filename |-> <<>>]

\* variant: session['items'] is extended with the new items
ExtendInSession(old, new_items, filename) ==
    [set |-> TRUE, items |-> old.items \o new_items, pdf_filename |-> filename]

\* session['items'] = items ; session['pdf_filename'] = filename
StoreInSession(old, new_items, filename) ==
    [set |-> TRUE, items |-> new_items, pdf_filename |-> filename]

\* session.get('items', [])
SessionItems(s) == IF s.set THEN s.items ELSE <<>>

New ==
    [pc |-> "new", op |-> "", sid |-> "", path |-> <<>>, doc |-> NoDoc,
     pdf_text |-> <<>>, items |-> <<>>, status |-> 0]

\* the request is answered: whose it was and what the response holds
Answer(op, sid, status, its) ==
    [New EXCEPT !.pc = "done", !.op = op, !.sid = sid, !.status = status, !.items = its]

HostInit ==
    /\ req = [r \in Requests |-> New]
    /\ folder = [n \in StoredNames |-> NoDoc]
    /\ session = [s \in Sessions |-> NoSession]
    /\ lastOK = [s \in Sessions |-> [any |-> FALSE, items |-> <<>>]]

\* request r has not arrived yet and is the next to arrive
Arrives(r) ==
    /\ req[r].pc = "new"
    /\ IF r = 1 THEN TRUE ELSE req[r - 1].pc # "new"

\* the session of a request that ends 400 or 500 is not modified
KeepSession(old) == old

\* /upload without a 'file' part: 400
UploadNoFile(r) ==
    /\ Arrives(r)
    /\ \E s \in Sessions :
         /\ req' = [req EXCEPT ![r] = Answer("upload", s, 400, <<>>)]
         /\ session' = [session EXCEPT ![s] = KeepSession(session[s])]
    /\ UNCHANGED <<folder, lastOK, pvars>>

\* /upload with an empty filename or a filename that is not allowed: 400
UploadRejected(r) ==
    /\ Arrives(r)
    /\ \E s \in Sessions, f \in FileNames, d \in Docs :
         /\ f = <<>> \/ ~allowed_file(f)
         /\ req' = [req EXCEPT ![r] = Answer("upload", s, 400, <<>>)]
         /\ session' = [session EXCEPT ![s] = KeepSession(session[s])]
    /\ UNCHANGED <<folder, lastOK, pvars>>

\* /upload passes validation; file.save(filepath) opens the file for writing
UploadOpen(r) ==
    /\ Arrives(r)
    /\ \E s \in Sessions, f \in FileNames, d \in Docs :
         /\ f # <<>>
         /\ allowed_file(f)
         /\ req' = [req EXCEPT ![r] = [New EXCEPT !.pc = "saving", !.op = "upload", !.sid = s,
                                                   !.path = secure_filename(f), !.doc = d]]
         /\ folder' = [folder EXCEPT ![secure_filename(f)] = NoDoc]
    /\ UNCHANGED <<session, lastOK, pvars>>

\* file.save(filepath) writes the upload and returns
UploadWrite(r) ==
    /\ req[r].pc = "saving"
    /\ req' = [req EXCEPT ![r].pc = "saved"]
    /\ folder' = [folder EXCEPT ![req[r].path] = req[r].doc]
    /\ UNCHANGED <<session, lastOK, pvars>>

\* file.save(filepath) raises (the disk is full, the folder is gone): 500
UploadSaveFails(r) ==
    /\ req[r].pc = "saving"
    /\ req' = [req EXCEPT ![r] = Answer("upload", req[r].sid, 500, <<>>)]
    /\ session' = [session EXCEPT ![req[r].sid] = KeepSession(session[req[r].sid])]
    /\ UNCHANGED <<folder, lastOK, pvars>>

\* pdf_text = extract_text_from_pdf(filepath)
UploadExtract(r) ==
    /\ req[r].pc = "saved"
    /\ req' = [req EXCEPT ![r].pc = "extracted",
                          ![r].pdf_text = extract_text_from_pdf(folder[req[r].path])]
    /\ UNCHANGED <<folder, session, lastOK, pvars>>

\* items = parse_nit_items(pdf_text); the session is written; 200 with the items
UploadStore(r) ==
    /\ req[r].pc = "extracted"
    /\ LET its == ParsedText[req[r].pdf_text]
           s   == req[r].sid
       IN  /\ session' = [session EXCEPT ![s] = StoreInSession(session[s], its, req[r].path)]
           /\ lastOK' = [lastOK EXCEPT ![s] = [any |-> TRUE, items |-> its]]
           /\ req' = [req EXCEPT ![r] = Answer("upload", s, 200, its)]
    /\ UNCHANGED <<folder, pvars>>

\* /get_items: 200 with session.get('items', [])
GetItems(r) ==
    /\ Arrives(r)
    /\ \E s \in Sessions :
         /\ req' = [req EXCEPT ![r] = Answer("get_items", s, 200, SessionItems(session[s]))]
    /\ UNCHANGED <<folder, session, lastOK, pvars>>

-----------------------------------------------------------------------------
(* Specifications *)

\* the parser run on one document
Init == ParserInit /\ HostInit

Next ==
    \/ Split
    \/ MatchLine
    \/ SkipLine
    \/ SearchQuantity
    \/ AppendWithQuantity
    \/ AppendWithoutQuantity
    \/ Return

Spec == Init /\ [][Next]_vars

\* the application serving requests
ParserUnused ==
    /\ text = <<>>
    /\ lines = <<>>
    /\ idx = 0
    /\ match = NoMatch
    /\ quantity_match = NoQuantity
    /\ items = <<>>
    /\ origin = <<>>
    /\ pc = "done"

InitHost == ParserUnused /\ HostInit

NextHost ==
    \E r \in Requests :
        \/ UploadNoFile(r)
        \/ UploadRejected(r)
        \/ UploadOpen(r)
        \/ UploadWrite(r)
        \/ UploadSaveFails(r)
        \/ UploadExtract(r)
        \/ UploadStore(r)
        \/ GetItems(r)

SpecHost == InitHost /\ [][NextHost]_vars

-----------------------------------------------------------------------------
(* Vocabulary of the properties: the line grammar stated on its own *)

Letters == {UpperLetters[k] : k \in 1..26} \cup {LowerLetters[k] : k \in 1..26}

LowerVocabulary == {LowerStr(w) : w \in Vocabulary}

RECURSIVE TrimLeft(_)
TrimLeft(s) == IF s # <<>> /\ IsSpace(Head(s)) THEN TrimLeft(Tail(s)) ELSE s

RECURSIVE TrimRight(_)
TrimRight(s) ==
    IF s # <<>> /\ IsSpace(s[Len(s)]) THEN TrimRight(SubSeq(s, 1, Len(s) - 1)) ELSE s

Trimmed(s) == TrimRight(TrimLeft(s))

\* t is digits, one delimiter, whitespace, and a non-empty remainder
WellFormedItemLine(t) ==
    \E d \in 1..Len(t) :
        /\ \A k \in 1..d : IsDigit(t[k])
        /\ d + 1 <= Len(t)
        /\ t[d + 1] \in {".", ":", ")", "]"}
        /\ \E w \in 1..Len(t) :
              /\ d + 1 + w < Len(t)
              /\ \A k \in (d + 2)..(d + 1 + w) : IsSpace(t[k])

Qualifies(line) == WellFormedItemLine(Trimmed(line))

\* the digits a trimmed line starts with
LeadingDigits(t) ==
    IF t = <<>> \/ ~IsDigit(t[1]) THEN <<>>
    ELSE LET d == CHOOSE d \in 1..Len(t) :
                    /\ \A k \in 1..d : IsDigit(t[k])
                    /\ (d = Len(t) \/ ~IsDigit(t[d + 1]))
         IN  SubSeq(t, 1, d)

\* what follows the number, the delimiter and the whitespace of a qualifying line
RemainderOf(line) ==
    LET t == Trimmed(line)
    IN  TrimLeft(From(t, Len(LeadingDigits(t)) + 2))

\* s[a..q] is a decimal number, with or without a fractional part
IsNumberSpan(s, a, q) ==
    /\ a <= q
    /\ IsDigit(s[a])
    /\ IsDigit(s[q])
    /\ \/ \A k \in a..q : IsDigit(s[k])
       \/ \E dot \in (a + 1)..(q - 1) :
             /\ s[dot] = "."
             /\ \A k \in (a..q) \ {dot} : IsDigit(s[k])

\* the ends e of the quantity+unit tokens s[a..e]: a number, whitespace, a unit word
TokenEnds(s, a) ==
    IF a > Len(s) \/ ~IsDigit(s[a]) THEN {}
    ELSE { e \in a..Len(s) :
             \E q \in a..e :
                /\ IsNumberSpan(s, a, q)
                /\ \E u \in (q + 2)..e :
                      /\ \A k \in (q + 1)..(u - 1) : IsSpace(s[k])
                      /\ LowerStr(SubSeq(s, u, e)) \in LowerVocabulary }

TokenStarts(s) == {a \in 1..Len(s) : TokenEnds(s, a) # {}}

Least(S) == CHOOSE a \in S : \A b \in S : a <= b

Greatest(S) == CHOOSE a \in S : \A b \in S : a >= b

\* the word (run of letters) that starts at s[u]
WordAt(s, u) == SubSeq(s, u, u + RunLen(s, u, Letters) - 1)

\* the words that follow a number and whitespace in s
WordsAfterNumbers(s) ==
    { WordAt(s, u) : u \in { v \in 2..Len(s) :
          /\ s[v] \in Letters
          /\ \E a \in 1..v, q \in 1..v :
                /\ q + 1 < v
                /\ IsNumberSpan(s, a, q)
                /\ \A k \in (q + 1)..(v - 1) : IsSpace(s[k]) } }

\* the lines read so far and the items they gave
Processed == 1..(idx - 1)

ItemsOf(j) == {k \in 1..Len(items) : origin[k] = j}

ItemRest(k) == RemainderOf(lines[origin[k]])

-----------------------------------------------------------------------------
(* Properties *)

C2_WholeUnitWord ==
    \A k \in 1..Len(items) :
        items[k].quantity # NA =>
            LET s == ItemRest(k)
                p == Least(TokenStarts(s))
                e == Greatest(TokenEnds(s, p))
                q == Greatest({n \in p..e : IsNumberSpan(s, p, n)})
                u == q + 1 + RunLen(s, q + 1, WhiteSpace)
            IN  /\ TokenStarts(s) # {}
                /\ items[k].quantity = SubSeq(s, p, q)
                /\ items[k].unit = SubSeq(s, u, e)
                /\ (e = Len(s) => items[k].specifications = <<>>)

\* C3: when every word that follows a number and whitespace in the remainder is
\* outside the vocabulary, no quantity and unit are found: both are N/A,
\* specifications is empty and description is the whole remainder
C3_ClosedVocabulary ==
    \A k \in 1..Len(items) :
        LET s == ItemRest(k)
        IN  (\A w \in WordsAfterNumbers(s) : LowerStr(w) \notin LowerVocabulary) =>
               /\ items[k].quantity = NA
               /\ items[k].unit = NA
               /\ items[k].specifications = <<>>
               /\ items[k].description = s

\* C4: the remainder is split at its leftmost quantity+unit token: description is
\* the text before the token's start, specifications the text after its end, both
\* with whitespace trimmed and nothing else; later tokens stay in specifications
C4_LeftmostSplit ==
    \A k \in 1..Len(items) :
        LET s == ItemRest(k)
            p == Least(TokenStarts(s))
            before == Trimmed(SubSeq(s, 1, p - 1))
        IN  TokenStarts(s) # {} =>
               /\ items[k].description = (IF before = <<>> THEN NoDescription ELSE before)
               /\ \E e \in TokenEnds(s, p) :
                     LET qn == Len(items[k].quantity)
                         un == Len(items[k].unit)
                     IN  /\ p + qn <= e - un
                         /\ SubSeq(s, p, p + qn - 1) = items[k].quantity
                         /\ \A c \in (p + qn)..(e - un) : IsSpace(s[c])
                         /\ SubSeq(s, e - un + 1, e) = items[k].unit
                         /\ items[k].specifications = Trimmed(From(s, e + 1))

C4_Witness ==
    /\ pc = "done"
    /\ Len(items) = 1
    /\ items[1].description = <<"R", "o", "d">>
    /\ items[1].quantity = <<"2", ".", "5">>
    /\ items[1].unit = <<"M", "e", "t", "e", "r", "s">>
    /\ items[1].specifications = <<"5", " ", "K", "g">>

\* C5: the parser never ends in an error: the loop never reads past the last
\* line and reads the groups of a match only when there is a match; a text none of
\* whose lines starts, after trimming, with a digit (the empty text among them)
\* gives no item, and a line that fails the item-start pattern adds nothing
C5_Total ==
    /\ pc # "start" => idx \in 1..(Len(lines) + 1)
    /\ pc \in {"matched", "searched"} => idx <= Len(lines)
    /\ pc = "searched" => match.ok
    /\ Len(items) <= Len(lines)
    /\ \A j \in Processed : ~Qualifies(lines[j]) => ItemsOf(j) = {}
    /\ (pc = "done" /\ \A j \in 1..Len(lines) :
                          Trimmed(lines[j]) = <<>> \/ ~IsDigit(Trimmed(lines[j])[1]))
          => items = <<>>
    /\ (pc = "done" /\ text = <<>>) => items = <<>>

C5_Witness ==
    /\ pc = "done"
    /\ Len(lines) = 3
    /\ lines[2] = <<>>
    /\ \A j \in 1..Len(lines) : ~Qualifies(lines[j])
    /\ \E j \in 1..Len(lines) : lines[j] # <<>>
    /\ items = <<>>

\* C6: one item per qualifying line, in the order of the lines; the item of a line
\* is what that line gives on its own; the loop ends only after the last line
C6_OrderAndIndependence ==
    /\ Len(origin) = Len(items)
    /\ \A k1, k2 \in 1..Len(items) : k1 < k2 => origin[k1] < origin[k2]
    /\ \A j \in Processed : Cardinality(ItemsOf(j)) = (IF Qualifies(lines[j]) THEN 1 ELSE 0)
    /\ \A k \in 1..Len(items) : origin[k] \in Processed /\ <<items[k]>> = parse_nit_items(lines[origin[k]])
    /\ pc = "done" => Processed = 1..Len(lines)

C6_Witness ==
    /\ pc = "done"
    /\ Len(lines) = 3
    /\ origin = <<1, 3>>
    /\ items[1].quantity = NA
    /\ items[2].quantity # NA

\* C7: description is never empty: it is 'No description found' when nothing but
\* whitespace precedes the quantity+unit token, and otherwise the trimmed text
C7_DescriptionNeverEmpty ==
    \A k \in 1..Len(items) :
        LET s == ItemRest(k)
            before == Trimmed(SubSeq(s, 1, Least(TokenStarts(s)) - 1))
        IN  /\ items[k].description # <<>>
            /\ items[k].description =
                 (IF TokenStarts(s) = {} THEN Trimmed(s)
                  ELSE IF before = <<>> THEN NoDescription
                  ELSE before)

C7_Witness ==
    /\ pc = "done"
    /\ Len(items) = 1
    /\ items[1].description = NoDescription
    /\ items[1].quantity = <<"2", "5">>
    /\ items[1].unit = <<"L", "i", "t", "r", "e", "s">>
    /\ items[1].specifications = <<"x">>

\* C8: quantity and unit are N/A together or detected together; when they are N/A
\* the remainder holds no quantity+unit token, specifications is empty and
\* description is the whole trimmed remainder
C8_QuantityUnitLockstep ==
    \A k \in 1..Len(items) :
        LET s == ItemRest(k)
        IN  /\ items[k].quantity = NA <=> items[k].unit = NA
            /\ items[k].quantity = NA =>
                  /\ TokenStarts(s) = {}
                  /\ items[k].specifications = <<>>
                  /\ items[k].description = Trimmed(s)
            /\ items[k].quantity # NA =>
                  /\ IsNumberSpan(items[k].quantity, 1, Len(items[k].quantity))
                  /\ LowerStr(items[k].unit) \in LowerVocabulary

C8_Witness ==
    /\ pc = "done"
    /\ Len(items) = 1
    /\ items[1].quantity = NA
    /\ items[1].unit = NA
    /\ items[1].specifications = <<>>
    /\ items[1].description = <<"R", "o", "d", " ", "2", "5", " ", "b", "o", "x", "e", "s">>

\* C9: the items a /upload request answers with, and stores in its session, are
\* the parse of the text of the document that request uploaded
C9_RequestIsolation ==
    [][\A r \in Requests :
          (req[r].pc = "extracted" /\ req'[r].pc = "done") =>
              /\ req'[r].items = parse_nit_items(extract_text_from_pdf(req[r].doc))
              /\ session'[req[r].sid].items = parse_nit_items(extract_text_from_pdf(req[r].doc))]_vars

\* C10: a session holds the items of its latest /upload answered 200, and nothing
\* of earlier uploads; uploads answered 400 or 500 leave it as it was
C10_SessionHoldsLatestUpload ==
    \A s \in Sessions :
        IF lastOK[s].any
        THEN session[s].set /\ session[s].items = lastOK[s].items
        ELSE session[s] = NoSession

C10_Witness ==
    /\ req[1].pc = "done" /\ req[1].op = "upload" /\ req[1].status = 200
    /\ req[1].items # <<>>
    /\ req[2].pc = "done" /\ req[2].op = "upload" /\ req[2].status = 500
    /\ req[2].sid = req[1].sid
    /\ session[req[1].sid].items = req[1].items

=============================================================================
